---- MODULE Spec2Model ----
(***************************************************************************)
(* A model of kale/rpc/rok.py: the RPC handlers that bridge a notebook to  *)
(* the Rok snapshot service and to Kubernetes.                             *)
(*                                                                         *)
(* Python objects that the code mutates or copies (the volume dicts) live  *)
(* in `heap`, a sequence indexed by object identity; everything else is a  *)
(* value.  A raised exception is a record whose `exc` field names its      *)
(* class; exc = "none" is a normal return.                                 *)
(***************************************************************************)
EXTENDS Integers, Sequences, FiniteSets, TLC

VARIABLES
  _client,      \* the module global _client: None or a RokClient handle
  rok_module,   \* whether rok_gw_client.client can be imported
  handles,      \* number of RokClient instances constructed so far
  heap,         \* the volume dicts, by object identity
  info,         \* version metadata the service holds for (bucket, obj, version)
  obj,          \* argument obj of replace_cloned_volumes
  volumes,      \* argument volumes of replace_cloned_volumes: identities
  buckets,      \* the buckets that exist in the storage service
  versions,     \* the versions registered in the storage service
  pvcs,         \* the PVCs created in the cluster
  req,          \* the handler invocation that ran last, and its arguments
  ret,          \* its outcome: a value or an exception
  log,          \* the external calls it made, in order
  raised,       \* the (failure point, condition) pairs raised so far
  pc,           \* SpecClient: position of each thread inside _get_client
  tmp,          \* SpecClient: the instance a thread has constructed
  got           \* SpecClient: the handles each thread's calls returned

vars == <<_client, rok_module, handles, heap, info, obj, volumes, buckets,
          versions, pvcs, req, ret, log, raised, pc, tmp, got>>

None == 0

NoReq == [fn |-> "none"]
NoRet == [exc |-> "pending"]

(***************************************************************************)
(* Bounds.                                                                 *)
(***************************************************************************)
MaxMembers == 2
MaxVolumes == 2

(***************************************************************************)
(* Python dict helpers.                                                    *)
(***************************************************************************)
DictSet(d, k, v) == [x \in DOMAIN d \cup {k} |-> IF x = k THEN v ELSE d[x]]

DictDel(d, k) == [x \in DOMAIN d \ {k} |-> d[x]]

Raise(cls, arg) == [exc |-> cls, msg |-> arg]

Return(v) == [exc |-> "none", value |-> v]

\* One external call of a handler invocation, and whether it succeeded.
Call(name, ok) == [call |-> name, ok |-> ok]

(***************************************************************************)
(* _get_client, run without interruption (the handlers below run one at a  *)
(* time).  modOK: the import succeeds; ctorOK: RokClient() succeeds.       *)
(***************************************************************************)
GetClient(c, n, modOK, ctorOK) ==
  IF ~modOK THEN [exc |-> "ImportError", client |-> c, handles |-> n]
  ELSE IF c = None
       THEN IF ctorOK
            THEN [exc |-> "none", value |-> n + 1, client |-> n + 1,
                  handles |-> n + 1]
            ELSE [exc |-> "Exception", client |-> c, handles |-> n]
       ELSE [exc |-> "none", value |-> c, client |-> c, handles |-> n]

(***************************************************************************)
(* int(s) for a str s, given as its sequence of characters: surrounding    *)
(* blanks are stripped, one sign is allowed, then one or more digits.      *)
(***************************************************************************)
Digits == <<"0", "1", "2", "3", "4", "5", "6", "7", "8", "9">>

DigitVal(ch) == CHOOSE d \in 0..9 : Digits[d + 1] = ch

IsDigit(ch) == \E d \in 0..9 : Digits[d + 1] = ch

RECURSIVE Strip(_)
Strip(s) ==
  IF s = <<>> THEN s
  ELSE IF Head(s) = " " THEN Strip(Tail(s))
  ELSE IF s[Len(s)] = " " THEN Strip(SubSeq(s, 1, Len(s) - 1))
  ELSE s

RECURSIVE DigitsVal(_, _)
DigitsVal(s, acc) ==
  IF s = <<>> THEN acc ELSE DigitsVal(Tail(s), 10 * acc + DigitVal(Head(s)))

PyInt(s) ==
  LET t == Strip(s)
      neg == t # <<>> /\ Head(t) = "-"
      u == IF t # <<>> /\ Head(t) \in {"-", "+"} THEN Tail(t) ELSE t
  IN IF u = <<>> \/ \E i \in DOMAIN u : ~IsDigit(u[i])
     THEN Raise("ValueError", s)
     ELSE Return(IF neg THEN 0 - DigitsVal(u, 0) ELSE DigitsVal(u, 0))

(***************************************************************************)
(* _get_group_members                                                      *)
(***************************************************************************)
MemberKey(i, field) == "group_member_" \o ToString(i) \o "_" \o field

\* A variant that skips a member with a missing key instead of failing.
RECURSIVE MembersLoop_SkipMissing(_, _, _, _)
MembersLoop_SkipMissing(inf, i, member_cnt, members) ==
  IF i >= member_cnt THEN Return(members)
  ELSE IF \E f \in {"object", "version", "url"} :
            MemberKey(i, f) \notin DOMAIN inf
       THEN MembersLoop_SkipMissing(inf, i + 1, member_cnt, members)
  ELSE MembersLoop_SkipMissing(inf, i + 1, member_cnt,
                   Append(members,
                          [object |-> inf[MemberKey(i, "object")],
                           version |-> inf[MemberKey(i, "version")],
                           rok_url |-> inf[MemberKey(i, "url")]]))

RECURSIVE MembersLoop(_, _, _, _)
MembersLoop(inf, i, member_cnt, members) ==
  IF i >= member_cnt THEN Return(members)
  ELSE IF MemberKey(i, "object") \notin DOMAIN inf
       THEN Raise("KeyError", MemberKey(i, "object"))
  ELSE IF MemberKey(i, "version") \notin DOMAIN inf
       THEN Raise("KeyError", MemberKey(i, "version"))
  ELSE IF MemberKey(i, "url") \notin DOMAIN inf
       THEN Raise("KeyError", MemberKey(i, "url"))
  ELSE MembersLoop(inf, i + 1, member_cnt,
                   Append(members,
                          [object |-> inf[MemberKey(i, "object")],
                           version |-> inf[MemberKey(i, "version")],
                           rok_url |-> inf[MemberKey(i, "url")]]))

GetGroupMembers(inf) ==
  IF "group_member_count" \notin DOMAIN inf
  THEN Raise("KeyError", "group_member_count")
  ELSE LET member_cnt == PyInt(inf["group_member_count"])
       IN IF member_cnt.exc # "none" THEN member_cnt
          ELSE MembersLoop(inf, 0, member_cnt.value, <<>>)

(***************************************************************************)
(* _get_cloned_volume.  The result carries the heap after the call: the    *)
(* deep copy is a new object, and the two assignments go to the copy.      *)
(***************************************************************************)
RokOrigin(member) == <<[key |-> "rok/origin", value |-> member.rok_url]>>

NotFoundMsg(name, obj_name) ==
  "Volume '" \o name \o "' not found in group '" \o obj_name \o "'"

\* A variant without the deep copy: the assignments go to the input dict.
RECURSIVE ClonedLoop_InPlace(_, _, _, _, _)
ClonedLoop_InPlace(h, volume, obj_name, members, i) ==
  LET member_name == obj_name \o "_" \o h[volume].name
  IN IF i > Len(members)
     THEN [exc |-> "ValueError",
           msg |-> NotFoundMsg(h[volume].name, obj_name), heap |-> h]
     ELSE IF members[i].object = member_name
          THEN LET h2 == [h EXCEPT ![volume] = DictSet(@, "type", "new_pvc")]
                   h3 == [h2 EXCEPT ![volume] =
                            DictSet(@, "annotations", RokOrigin(members[i]))]
               IN [exc |-> "none", value |-> volume, heap |-> h3]
          ELSE ClonedLoop_InPlace(h, volume, obj_name, members, i + 1)

\* A variant that scans the members from the last to the first.
RECURSIVE ClonedLoop_LastMatch(_, _, _, _, _)
ClonedLoop_LastMatch(h, volume, obj_name, members, i) ==
  LET member_name == obj_name \o "_" \o h[volume].name
      j == Len(members) + 1 - i
  IN IF i > Len(members)
     THEN [exc |-> "ValueError",
           msg |-> NotFoundMsg(h[volume].name, obj_name), heap |-> h]
     ELSE IF members[j].object = member_name
          THEN LET copy == Len(h) + 1
                   h1 == Append(h, h[volume])
                   h2 == [h1 EXCEPT ![copy] = DictSet(@, "type", "new_pvc")]
                   h3 == [h2 EXCEPT ![copy] =
                            DictSet(@, "annotations", RokOrigin(members[j]))]
               IN [exc |-> "none", value |-> copy, heap |-> h3]
          ELSE ClonedLoop_LastMatch(h, volume, obj_name, members, i + 1)

RECURSIVE ClonedLoop(_, _, _, _, _)
ClonedLoop(h, volume, obj_name, members, i) ==
  LET member_name == obj_name \o "_" \o h[volume].name
  IN IF i > Len(members)
     THEN [exc |-> "ValueError",
           msg |-> NotFoundMsg(h[volume].name, obj_name), heap |-> h]
     ELSE IF members[i].object = member_name
          THEN LET copy == Len(h) + 1
                   h1 == Append(h, h[volume])
                   h2 == [h1 EXCEPT ![copy] = DictSet(@, "type", "new_pvc")]
                   h3 == [h2 EXCEPT ![copy] =
                            DictSet(@, "annotations", RokOrigin(members[i]))]
               IN [exc |-> "none", value |-> copy, heap |-> h3]
          ELSE ClonedLoop(h, volume, obj_name, members, i + 1)

GetClonedVolume(h, volume, obj_name, members) ==
  ClonedLoop(h, volume, obj_name, members, 1)

(***************************************************************************)
(* replace_cloned_volumes: the loop over volumes, then the whole handler.  *)
(***************************************************************************)
\* A variant that keeps only the resolved clone volumes.
RECURSIVE ReplaceLoop_Filter(_, _, _, _, _, _)
ReplaceLoop_Filter(h, vols, obj_name, members, k, _volumes) ==
  IF k > Len(vols) THEN [exc |-> "none", value |-> _volumes, heap |-> h]
  ELSE IF h[vols[k]].type = "clone"
       THEN LET r == GetClonedVolume(h, vols[k], obj_name, members)
            IN IF r.exc # "none" THEN r
               ELSE ReplaceLoop_Filter(r.heap, vols, obj_name, members, k + 1,
                                       Append(_volumes, r.value))
       ELSE ReplaceLoop_Filter(h, vols, obj_name, members, k + 1, _volumes)

RECURSIVE ReplaceLoop(_, _, _, _, _, _)
ReplaceLoop(h, vols, obj_name, members, k, _volumes) ==
  IF k > Len(vols) THEN [exc |-> "none", value |-> _volumes, heap |-> h]
  ELSE IF h[vols[k]].type = "clone"
       THEN LET r == GetClonedVolume(h, vols[k], obj_name, members)
            IN IF r.exc # "none" THEN r
               ELSE ReplaceLoop(r.heap, vols, obj_name, members, k + 1,
                                Append(_volumes, r.value))
       ELSE ReplaceLoop(h, vols, obj_name, members, k + 1,
                        Append(_volumes, vols[k]))

ReplaceClonedVolumes ==
  /\ req = NoReq
  /\ req' = [fn |-> "replace_cloned_volumes"]
  /\ \E ctorOK \in BOOLEAN, infoOK \in BOOLEAN :
       LET rok == GetClient(_client, handles, rok_module, ctorOK)
       IN /\ _client' = rok.client
          /\ handles' = rok.handles
          /\ IF rok.exc # "none"
             THEN /\ ret' = Raise(rok.exc, "RokClient")
                  /\ log' = <<>>
                  /\ heap' = heap
             ELSE IF ~infoOK
             THEN /\ ret' = Raise("Exception", "version_info")
                  /\ log' = <<Call("version_info", FALSE)>>
                  /\ heap' = heap
             ELSE LET members == GetGroupMembers(info)
                  IN /\ log' = <<Call("version_info", TRUE)>>
                     /\ IF members.exc # "none"
                        THEN ret' = members /\ heap' = heap
                        ELSE LET r == ReplaceLoop(heap, volumes, obj,
                                                  members.value, 1, <<>>)
                             IN /\ heap' = r.heap
                                /\ ret' = IF r.exc = "none"
                                          THEN Return(r.value)
                                          ELSE Raise(r.exc, r.msg)
  /\ UNCHANGED <<rok_module, info, obj, volumes, buckets, versions, pvcs,
                 raised, pc, tmp, got>>

(***************************************************************************)
(* The inputs of replace_cloned_volumes.                                   *)
(***************************************************************************)
SeqsUpTo(S, n) == UNION {[1..m -> S] : m \in 0..n}

GroupObjects == {"g", "h"}

MemberObjects == {"g_a", "g_b", "h_a"}

\* Well-formed version metadata for a list of member object names.
InfoOf(objs) ==
  [k \in {"group_member_count"}
         \cup {MemberKey(i, f) : i \in 0..(Len(objs) - 1),
                                 f \in {"object", "version", "url"}} |->
     IF k = "group_member_count" THEN <<Digits[Len(objs) + 1]>>
     ELSE LET i == CHOOSE j \in 0..(Len(objs) - 1) :
                     k \in {MemberKey(j, f) : f \in {"object", "version", "url"}}
          IN IF k = MemberKey(i, "object") THEN objs[i + 1]
             ELSE IF k = MemberKey(i, "version") THEN "v" \o ToString(i)
             ELSE "rok://" \o ToString(i)]

CountValues ==
  {<<Digits[n + 1]>> : n \in 0..(MaxMembers + 1)}
    \cup {<<>>, <<"x">>, <<"-", "1">>, <<" ", "1", " ">>, <<"1", "x">>}

\* Metadata as the service may return it: well formed, with one key
\* missing, or with any count.
Infos ==
  UNION {LET wf == InfoOf(objs)
         IN {wf} \cup {DictDel(wf, k) : k \in DOMAIN wf}
                 \cup {DictSet(wf, "group_member_count", c) : c \in CountValues}
         : objs \in SeqsUpTo(MemberObjects, MaxMembers)}

OldAnnotations == <<[key |-> "old", value |-> "x"]>>

VolumeDicts ==
  {[name |-> "a", type |-> "clone", mount_point |-> "/a"],
   [name |-> "b", type |-> "clone", mount_point |-> "/b"],
   [name |-> "a", type |-> "clone", mount_point |-> "/a",
    annotations |-> OldAnnotations],
   [name |-> "a", type |-> "pvc", mount_point |-> "/a"],
   [name |-> "b", type |-> "new_pvc", mount_point |-> "/b",
    annotations |-> OldAnnotations]}

InitResolve ==
  /\ _client = None
  /\ rok_module \in BOOLEAN
  /\ handles = 0
  /\ heap \in SeqsUpTo(VolumeDicts, MaxVolumes)
  /\ volumes = [k \in DOMAIN heap |-> k]
  /\ info \in Infos
  /\ obj \in GroupObjects
  /\ buckets = {}
  /\ versions = {}
  /\ pvcs = {}
  /\ req = NoReq
  /\ ret = NoRet
  /\ log = <<>>
  /\ raised = {}
  /\ pc = <<>>
  /\ tmp = <<>>
  /\ got = <<>>

NextResolve == ReplaceClonedVolumes

SpecResolve == InitResolve /\ [][NextResolve]_vars

(***************************************************************************)
(* check_rok_availability.  The result names the failure point: 1 the      *)
(* client, 2 account_info, 3 the notebook check against the suggestions.   *)
(***************************************************************************)
PodName == "nb-0"

RPCError(cls, details, trans_id) ==
  [exc |-> cls, details |-> details, trans_id |-> trans_id]

\* A variant that logs an account_info failure and carries on.
CheckRok_IgnoreAccount(c, n, modOK, ctorOK, acctOK, listOK, suggestions, trans_id) ==
  LET rok == GetClient(c, n, modOK, ctorOK)
      l1 == <<Call("_get_client", rok.exc = "none")>>
      l2 == Append(l1, Call("account_info", acctOK))
      l3 == Append(l2, [call |-> "version_register_suggest", ok |-> listOK,
                        result |-> IF listOK THEN suggestions ELSE <<>>])
      base == [client |-> rok.client, handles |-> rok.handles]
  IN IF rok.exc = "ImportError"
     THEN base @@ [log |-> l1, point |-> 1,
                   ret |-> RPCError("RPCNotFoundError",
                                    "Rok Gateway Client module not found",
                                    trans_id)]
     ELSE IF rok.exc # "none"
     THEN base @@ [log |-> l1, point |-> 1,
                   ret |-> RPCError("RPCServiceUnavailableError",
                                    "Failed to initialize RokClient",
                                    trans_id)]
     ELSE IF ~listOK
     THEN base @@ [log |-> l3, point |-> 3,
                   ret |-> RPCError("RPCServiceUnavailableError",
                                    "Rok cannot list notebooks in this namespace",
                                    trans_id)]
     ELSE IF ~\E k \in DOMAIN suggestions : suggestions[k].value = PodName
     THEN base @@ [log |-> l3, point |-> 3,
                   ret |-> RPCError("RPCNotFoundError",
                                    "Could not find this notebook in notebooks listed by Rok",
                                    trans_id)]
     ELSE base @@ [log |-> l3, point |-> 0, ret |-> Return(None)]

\* A variant that reports a failed listing with the account_info details.
CheckRok_SameDetails(c, n, modOK, ctorOK, acctOK, listOK, suggestions, trans_id) ==
  LET rok == GetClient(c, n, modOK, ctorOK)
      l1 == <<Call("_get_client", rok.exc = "none")>>
      l2 == Append(l1, Call("account_info", acctOK))
      l3 == Append(l2, [call |-> "version_register_suggest", ok |-> listOK,
                        result |-> IF listOK THEN suggestions ELSE <<>>])
      base == [client |-> rok.client, handles |-> rok.handles]
  IN IF rok.exc = "ImportError"
     THEN base @@ [log |-> l1, point |-> 1,
                   ret |-> RPCError("RPCNotFoundError",
                                    "Rok Gateway Client module not found",
                                    trans_id)]
     ELSE IF rok.exc # "none"
     THEN base @@ [log |-> l1, point |-> 1,
                   ret |-> RPCError("RPCServiceUnavailableError",
                                    "Failed to initialize RokClient",
                                    trans_id)]
     ELSE IF ~acctOK
     THEN base @@ [log |-> l2, point |-> 2,
                   ret |-> RPCError("RPCServiceUnavailableError",
                                    "Failed to access Rok", trans_id)]
     ELSE IF ~listOK
     THEN base @@ [log |-> l3, point |-> 3,
                   ret |-> RPCError("RPCServiceUnavailableError",
                                    "Failed to access Rok", trans_id)]
     ELSE IF ~\E k \in DOMAIN suggestions : suggestions[k].value = PodName
     THEN base @@ [log |-> l3, point |-> 3,
                   ret |-> RPCError("RPCNotFoundError",
                                    "Could not find this notebook in notebooks listed by Rok",
                                    trans_id)]
     ELSE base @@ [log |-> l3, point |-> 0, ret |-> Return(None)]

CheckRok(c, n, modOK, ctorOK, acctOK, listOK, suggestions, trans_id) ==
  LET rok == GetClient(c, n, modOK, ctorOK)
      l1 == <<Call("_get_client", rok.exc = "none")>>
      l2 == Append(l1, Call("account_info", acctOK))
      l3 == Append(l2, [call |-> "version_register_suggest", ok |-> listOK,
                        result |-> IF listOK THEN suggestions ELSE <<>>])
      base == [client |-> rok.client, handles |-> rok.handles]
  IN IF rok.exc = "ImportError"
     THEN base @@ [log |-> l1, point |-> 1,
                   ret |-> RPCError("RPCNotFoundError",
                                    "Rok Gateway Client module not found",
                                    trans_id)]
     ELSE IF rok.exc # "none"
     THEN base @@ [log |-> l1, point |-> 1,
                   ret |-> RPCError("RPCServiceUnavailableError",
                                    "Failed to initialize RokClient",
                                    trans_id)]
     ELSE IF ~acctOK
     THEN base @@ [log |-> l2, point |-> 2,
                   ret |-> RPCError("RPCServiceUnavailableError",
                                    "Failed to access Rok", trans_id)]
     ELSE IF ~listOK
     THEN base @@ [log |-> l3, point |-> 3,
                   ret |-> RPCError("RPCServiceUnavailableError",
                                    "Rok cannot list notebooks in this namespace",
                                    trans_id)]
     ELSE IF ~\E k \in DOMAIN suggestions : suggestions[k].value = PodName
     THEN base @@ [log |-> l3, point |-> 3,
                   ret |-> RPCError("RPCNotFoundError",
                                    "Could not find this notebook in notebooks listed by Rok",
                                    trans_id)]
     ELSE base @@ [log |-> l3, point |-> 0, ret |-> Return(None)]

MaxTrans == 2
MaxSuggestions == 2

TransIds == 1..MaxTrans

Suggestions ==
  SeqsUpTo({[value |-> "nb-0"], [value |-> "nb-1"]}, MaxSuggestions)

CheckRokAvailability ==
  \E ctorOK \in BOOLEAN, acctOK \in BOOLEAN, listOK \in BOOLEAN,
     suggestions \in Suggestions, trans_id \in TransIds :
    LET r == CheckRok(_client, handles, rok_module, ctorOK, acctOK, listOK,
                      suggestions, trans_id)
    IN /\ req' = [fn |-> "check_rok_availability", trans_id |-> trans_id]
       /\ _client' = r.client
       /\ handles' = r.handles
       /\ log' = r.log
       /\ ret' = r.ret
       /\ raised' = IF r.ret.exc = "none" THEN raised
                     ELSE raised \cup {[point |-> r.point, exc |-> r.ret.exc,
                                        details |-> r.ret.details]}
       /\ UNCHANGED <<rok_module, heap, info, obj, volumes, buckets,
                      versions, pvcs, pc, tmp, got>>

InitAvail ==
  /\ _client = None
  /\ rok_module \in BOOLEAN
  /\ handles = 0
  /\ heap = <<>>
  /\ volumes = <<>>
  /\ info = <<>>
  /\ obj = ""
  /\ buckets = {}
  /\ versions = {}
  /\ pvcs = {}
  /\ req = NoReq
  /\ ret = NoRet
  /\ log = <<>>
  /\ raised = {}
  /\ pc = <<>>
  /\ tmp = <<>>
  /\ got = <<>>

NextAvail == CheckRokAvailability

SpecAvail == InitAvail /\ [][NextAvail]_vars

(***************************************************************************)
(* hydrate_pvc_from_snapshot.  A byte count b is the pair (hi, lo) with    *)
(* b = hi * 2^30 + lo and lo < 2^30; the float b / 1024 / 1024 / 1024 is   *)
(* the pair (hi, lo) of value hi + lo / 2^30.  The first division rounds   *)
(* b to the nearest float, ties to even; dividing a float by 1024 is       *)
(* exact.                                                                  *)
(***************************************************************************)
GiB == 1073741824

MantissaBits == 53

RECURSIVE Pow2(_)
Pow2(e) == IF e = 0 THEN 1 ELSE 2 * Pow2(e - 1)

RECURSIVE BitLen(_)
BitLen(n) == IF n = 0 THEN 0 ELSE 1 + BitLen(n \div 2)

\* b / 1024 / 1024 / 1024
TrueDivGi(b) ==
  LET bits == IF b.hi = 0 THEN BitLen(b.lo) ELSE 30 + BitLen(b.hi)
      e == bits - MantissaBits
  IN IF e <= 0 THEN b
     ELSE LET q == b.lo \div Pow2(e)
              r == b.lo % Pow2(e)
              half == Pow2(e - 1)
              up == r > half \/ (r = half /\ q % 2 = 1)
              lo2 == (IF up THEN q + 1 ELSE q) * Pow2(e)
          IN IF lo2 = GiB THEN [hi |-> b.hi + 1, lo |-> 0]
             ELSE [hi |-> b.hi, lo |-> lo2]

\* math.ceil
MathCeil(x) == IF x.lo = 0 THEN x.hi ELSE x.hi + 1

\* "{}Gi".format(size)
StorageOf(size) == ToString(size) \o "Gi"

NewPvcName == "pvc-new"

Hydrate(c, n, modOK, ctorOK, infoOK, createOK, inf, cluster) ==
  LET rok == GetClient(c, n, modOK, ctorOK)
      base == [client |-> rok.client, handles |-> rok.handles]
      size == MathCeil(TrueDivGi(inf["content_length"]))
      pvc == [name |-> NewPvcName, storage |-> StorageOf(size),
              origin |-> inf["rok_url"]]
      created == createOK /\ \A p \in cluster : p.name # pvc.name
      l1 == <<Call("version_info", infoOK)>>
      l2 == Append(l1, [call |-> "create_namespaced_persistent_volume_claim",
                        ok |-> created, arg |-> pvc])
  IN IF rok.exc # "none"
     THEN base @@ [log |-> <<>>, pvcs |-> cluster,
                   ret |-> Raise(rok.exc, "RokClient")]
     ELSE IF ~infoOK
     THEN base @@ [log |-> l1, pvcs |-> cluster,
                   ret |-> Raise("Exception", "version_info")]
     ELSE IF ~created
     THEN base @@ [log |-> l2, pvcs |-> cluster,
                   ret |-> Raise("ApiException", pvc.name)]
     ELSE base @@ [log |-> l2, pvcs |-> cluster \cup {pvc},
                   ret |-> Return([name |-> pvc.name])]

HydratePvcFromSnapshot ==
  \E ctorOK \in BOOLEAN, infoOK \in BOOLEAN, createOK \in BOOLEAN :
    LET r == Hydrate(_client, handles, rok_module, ctorOK, infoOK, createOK,
                     info, pvcs)
    IN /\ req' = [fn |-> "hydrate_pvc_from_snapshot"]
       /\ _client' = r.client
       /\ handles' = r.handles
       /\ log' = r.log
       /\ ret' = r.ret
       /\ pvcs' = r.pvcs
       /\ UNCHANGED <<rok_module, heap, info, obj, volumes, buckets,
                      versions, raised, pc, tmp, got>>

\* Content lengths around the gibibyte boundaries and around 2^53 bytes,
\* where a float no longer holds every integer.
HiValues ==
  {0, 1, 2, 1023, 8388607, 8388608, 8388609, 16777216, 16777217,
   1073741824, 2147483646}

LoValues == {0, 1, 2, 3, 4, 127, 128, 129, 536870912, 1073741822, 1073741823}

InitHydrate ==
  /\ _client = None
  /\ rok_module \in BOOLEAN
  /\ handles = 0
  /\ heap = <<>>
  /\ volumes = <<>>
  /\ \E hi \in HiValues, lo \in LoValues :
       info = [content_length |-> [hi |-> hi, lo |-> lo],
               rok_url |-> "rok://x/y"]
  /\ obj = ""
  /\ buckets = {}
  /\ versions = {}
  /\ pvcs = {}
  /\ req = NoReq
  /\ ret = NoRet
  /\ log = <<>>
  /\ raised = {}
  /\ pc = <<>>
  /\ tmp = <<>>
  /\ got = <<>>

NextHydrate == HydratePvcFromSnapshot

SpecHydrate == InitHydrate /\ [][NextHydrate]_vars

(***************************************************************************)
(* _get_client called from several threads.  Nothing in the module guards  *)
(* the global, so a thread can be preempted between the import, the test   *)
(* of _client, the construction, the store and the final read.             *)
(***************************************************************************)
NThreads == 2
MaxCalls == 2

Threads == 1..NThreads

\* from rok_gw_client.client import RokClient
Import(t) ==
  /\ pc[t] = "idle"
  /\ Len(got[t]) < MaxCalls
  /\ IF rok_module
     THEN pc' = [pc EXCEPT ![t] = "test"] /\ got' = got
     ELSE /\ pc' = pc
          /\ got' = [got EXCEPT ![t] = Append(@, Raise("ImportError",
                                                        "RokClient"))]
  /\ UNCHANGED <<_client, rok_module, handles, heap, info, obj, volumes,
                 buckets, versions, pvcs, req, ret, log, raised, tmp>>

\* if _client is None:
Test(t) ==
  /\ pc[t] = "test"
  /\ pc' = [pc EXCEPT ![t] = IF _client = None THEN "construct"
                             ELSE "return"]
  /\ UNCHANGED <<_client, rok_module, handles, heap, info, obj, volumes,
                 buckets, versions, pvcs, req, ret, log, raised, tmp, got>>

\* RokClient()
Construct(t) ==
  /\ pc[t] = "construct"
  /\ \E ctorOK \in BOOLEAN :
       IF ctorOK
       THEN /\ handles' = handles + 1
            /\ tmp' = [tmp EXCEPT ![t] = handles + 1]
            /\ pc' = [pc EXCEPT ![t] = "store"]
            /\ got' = got
       ELSE /\ pc' = [pc EXCEPT ![t] = "idle"]
            /\ got' = [got EXCEPT ![t] = Append(@, Raise("Exception",
                                                          "RokClient"))]
            /\ UNCHANGED <<handles, tmp>>
  /\ UNCHANGED <<_client, rok_module, heap, info, obj, volumes, buckets,
                 versions, pvcs, req, ret, log, raised>>

\* _client = <the new instance>
Store(t) ==
  /\ pc[t] = "store"
  /\ _client' = tmp[t]
  /\ pc' = [pc EXCEPT ![t] = "return"]
  /\ UNCHANGED <<rok_module, handles, heap, info, obj, volumes, buckets,
                 versions, pvcs, req, ret, log, raised, tmp, got>>

\* return _client
ReturnClient(t) ==
  /\ pc[t] = "return"
  /\ got' = [got EXCEPT ![t] = Append(@, Return(_client))]
  /\ pc' = [pc EXCEPT ![t] = "idle"]
  /\ UNCHANGED <<_client, rok_module, handles, heap, info, obj, volumes,
                 buckets, versions, pvcs, req, ret, log, raised, tmp>>

InitClient ==
  /\ _client = None
  /\ rok_module \in BOOLEAN
  /\ handles = 0
  /\ heap = <<>>
  /\ volumes = <<>>
  /\ info = <<>>
  /\ obj = ""
  /\ buckets = {}
  /\ versions = {}
  /\ pvcs = {}
  /\ req = NoReq
  /\ ret = NoRet
  /\ log = <<>>
  /\ raised = {}
  /\ pc = [t \in Threads |-> "idle"]
  /\ tmp = [t \in Threads |-> None]
  /\ got = [t \in Threads |-> <<>>]

NextClient ==
  \E t \in Threads :
    \/ Import(t)
    \/ Test(t)
    \/ Construct(t)
    \/ Store(t)
    \/ ReturnClient(t)

SpecClient == InitClient /\ [][NextClient]_vars

(***************************************************************************)
(* snapshot_notebook and snapshot_pvc.  pod_utils.create_rok_bucket lives  *)
(* outside this file: it creates the bucket if it does not exist.          *)
(***************************************************************************)
DEFAULT_BUCKET == "notebooks"

CreateRokBucket(bks, bucket, ok) ==
  IF ~ok THEN [exc |-> "Exception", buckets |-> bks, created |-> FALSE]
  ELSE [exc |-> "none", buckets |-> bks \cup {bucket},
        created |-> bucket \notin bks]

\* A variant that swallows a failure of the bucket step and registers the
\* version all the same.
SnapshotNotebook_IgnoreBucket(c, n, bks, vers, modOK, ctorOK, bucketOK, regOK, bucket, o) ==
  LET rok == GetClient(c, n, modOK, ctorOK)
      base == [client |-> rok.client, handles |-> rok.handles]
      name == IF o = "" THEN PodName ELSE o
      b == CreateRokBucket(bks, bucket, bucketOK)
      l1 == <<[call |-> "create_rok_bucket", ok |-> b.exc = "none",
               created |-> b.created]>>
      l2 == Append(l1, Call("version_register", regOK))
      version == [bucket |-> bucket, obj |-> name, type |-> "jupyter"]
  IN IF rok.exc # "none"
     THEN base @@ [log |-> <<>>, buckets |-> bks, versions |-> vers,
                   ret |-> Raise(rok.exc, "RokClient")]
     ELSE IF ~regOK
     THEN base @@ [log |-> l2, buckets |-> b.buckets, versions |-> vers,
                   ret |-> Raise("Exception", "version_register")]
     ELSE base @@ [log |-> l2, buckets |-> b.buckets,
                   versions |-> vers \cup {version},
                   ret |-> Return(version)]

SnapshotNotebook(c, n, bks, vers, modOK, ctorOK, bucketOK, regOK, bucket, o) ==
  LET rok == GetClient(c, n, modOK, ctorOK)
      base == [client |-> rok.client, handles |-> rok.handles]
      name == IF o = "" THEN PodName ELSE o
      b == CreateRokBucket(bks, bucket, bucketOK)
      l1 == <<[call |-> "create_rok_bucket", ok |-> b.exc = "none",
               created |-> b.created]>>
      l2 == Append(l1, Call("version_register", regOK))
      version == [bucket |-> bucket, obj |-> name, type |-> "jupyter"]
  IN IF rok.exc # "none"
     THEN base @@ [log |-> <<>>, buckets |-> bks, versions |-> vers,
                   ret |-> Raise(rok.exc, "RokClient")]
     ELSE IF b.exc # "none"
     THEN base @@ [log |-> l1, buckets |-> b.buckets, versions |-> vers,
                   ret |-> Raise(b.exc, "create_rok_bucket")]
     ELSE IF ~regOK
     THEN base @@ [log |-> l2, buckets |-> b.buckets, versions |-> vers,
                   ret |-> Raise("Exception", "version_register")]
     ELSE base @@ [log |-> l2, buckets |-> b.buckets,
                   versions |-> vers \cup {version},
                   ret |-> Return(version)]

SnapshotPvc(c, n, bks, vers, modOK, ctorOK, bucketOK, regOK, bucket, pvc_name) ==
  LET rok == GetClient(c, n, modOK, ctorOK)
      base == [client |-> rok.client, handles |-> rok.handles]
      b == CreateRokBucket(bks, bucket, bucketOK)
      l1 == <<[call |-> "create_rok_bucket", ok |-> b.exc = "none",
               created |-> b.created]>>
      l2 == Append(l1, Call("version_register", regOK))
      version == [bucket |-> bucket, obj |-> pvc_name, type |-> "dataset"]
  IN IF rok.exc # "none"
     THEN base @@ [log |-> <<>>, buckets |-> bks, versions |-> vers,
                   ret |-> Raise(rok.exc, "RokClient")]
     ELSE IF b.exc # "none"
     THEN base @@ [log |-> l1, buckets |-> b.buckets, versions |-> vers,
                   ret |-> Raise(b.exc, "create_rok_bucket")]
     ELSE IF ~regOK
     THEN base @@ [log |-> l2, buckets |-> b.buckets, versions |-> vers,
                   ret |-> Raise("Exception", "version_register")]
     ELSE base @@ [log |-> l2, buckets |-> b.buckets,
                   versions |-> vers \cup {version},
                   ret |-> Return(version)]

BucketNames == {DEFAULT_BUCKET, "other"}

\* obj, "" standing for a falsy obj (None, the default, or "").
NotebookObjs == {"", "nb-1"}

PvcNames == {"data-0"}

SnapshotNotebookCall ==
  \E ctorOK \in BOOLEAN, bucketOK \in BOOLEAN, regOK \in BOOLEAN,
     bucket \in BucketNames, o \in NotebookObjs :
    LET r == SnapshotNotebook(_client, handles, buckets, versions,
                              rok_module, ctorOK, bucketOK, regOK, bucket, o)
    IN /\ req' = [fn |-> "snapshot_notebook", bucket |-> bucket]
       /\ _client' = r.client
       /\ handles' = r.handles
       /\ buckets' = r.buckets
       /\ versions' = r.versions
       /\ log' = r.log
       /\ ret' = r.ret
       /\ UNCHANGED <<rok_module, heap, info, obj, volumes, pvcs, raised,
                      pc, tmp, got>>

SnapshotPvcCall ==
  \E ctorOK \in BOOLEAN, bucketOK \in BOOLEAN, regOK \in BOOLEAN,
     bucket \in BucketNames, pvc_name \in PvcNames :
    LET r == SnapshotPvc(_client, handles, buckets, versions, rok_module,
                         ctorOK, bucketOK, regOK, bucket, pvc_name)
    IN /\ req' = [fn |-> "snapshot_pvc", bucket |-> bucket]
       /\ _client' = r.client
       /\ handles' = r.handles
       /\ buckets' = r.buckets
       /\ versions' = r.versions
       /\ log' = r.log
       /\ ret' = r.ret
       /\ UNCHANGED <<rok_module, heap, info, obj, volumes, pvcs, raised,
                      pc, tmp, got>>

InitSnapshot ==
  /\ _client = None
  /\ rok_module \in BOOLEAN
  /\ handles = 0
  /\ heap = <<>>
  /\ volumes = <<>>
  /\ info = <<>>
  /\ obj = ""
  /\ buckets \in SUBSET BucketNames
  /\ versions = {}
  /\ pvcs = {}
  /\ req = NoReq
  /\ ret = NoRet
  /\ log = <<>>
  /\ raised = {}
  /\ pc = <<>>
  /\ tmp = <<>>
  /\ got = <<>>

NextSnapshot == SnapshotNotebookCall \/ SnapshotPvcCall

SpecSnapshot == InitSnapshot /\ [][NextSnapshot]_vars

(***************************************************************************)
(* Properties of the volume group resolver, under SpecResolve.             *)
(***************************************************************************)
ReplaceReturned == req.fn = "replace_cloned_volumes" /\ ret.exc = "none"

\* The handler got as far as the metadata: client and version_info succeeded.
ReplaceGotInfo ==
  /\ req.fn = "replace_cloned_volumes"
  /\ log = <<Call("version_info", TRUE)>>

CountOf(inf) == PyInt(inf["group_member_count"]).value

\* The indices of the metadata members whose object is `name`.
MatchIdx(inf, name) ==
  {i \in 0..(CountOf(inf) - 1) : inf[MemberKey(i, "object")] = name}

MemberName(k) == obj \o "_" \o heap[volumes[k]].name

IsClone(k) == heap[volumes[k]].type = "clone"

\* C1: whenever replace_cloned_volumes returns, the result has the length
\* of `volumes`; at every position a non-clone volume is the input volume
\* itself, unchanged, and a clone volume is replaced by a descriptor of the
\* same name and type "new_pvc".
C1_PositionalTransform ==
  [][ReplaceReturned' =>
       /\ Len(ret'.value) = Len(volumes)
       /\ \A k \in DOMAIN volumes :
            IF ~IsClone(k)
            THEN /\ ret'.value[k] = volumes[k]
                 /\ heap'[volumes[k]] = heap[volumes[k]]
            ELSE /\ heap'[ret'.value[k]].name = heap[volumes[k]].name
                 /\ heap'[ret'.value[k]].type = "new_pvc"]_vars

C1_Witness ==
  /\ ReplaceReturned
  /\ Len(volumes) = 2
  /\ IsClone(1)
  /\ ~IsClone(2)
  /\ heap[ret.value[1]].type = "new_pvc"

\* C2: a clone volume with exactly one matching member resolves to a new
\* descriptor that equals the input in every field except type, which is
\* "new_pvc", and annotations, which is the single rok/origin annotation of
\* that member's URL; the input descriptor keeps its type and annotations.
C2_CopyNotMutate ==
  [][ReplaceReturned' =>
       \A k \in DOMAIN volumes :
         (IsClone(k) /\ Cardinality(MatchIdx(info, MemberName(k))) = 1) =>
           LET v == heap[volumes[k]]
               r == heap'[ret'.value[k]]
               i == CHOOSE j \in MatchIdx(info, MemberName(k)) : TRUE
           IN /\ ret'.value[k] # volumes[k]
              /\ DOMAIN r = DOMAIN v \cup {"annotations"}
              /\ \A f \in DOMAIN v \ {"type", "annotations"} : r[f] = v[f]
              /\ r.type = "new_pvc"
              /\ r.annotations = <<[key |-> "rok/origin",
                                    value |-> info[MemberKey(i, "url")]]>>
              /\ heap'[volumes[k]] = v]_vars

C2_Witness ==
  /\ ReplaceReturned
  /\ \E k \in DOMAIN volumes :
       /\ IsClone(k)
       /\ "annotations" \in DOMAIN heap[volumes[k]]
       /\ heap[volumes[k]].annotations = OldAnnotations
       /\ Cardinality(MatchIdx(info, MemberName(k))) = 1
       /\ heap[ret.value[k]].annotations # OldAnnotations

\* Some clone volume has no member of its name in the metadata.
SomeCloneUnmatched ==
  \E k \in DOMAIN volumes : IsClone(k) /\ MatchIdx(info, MemberName(k)) = {}

FirstUnmatched ==
  CHOOSE k \in DOMAIN volumes :
    /\ IsClone(k) /\ MatchIdx(info, MemberName(k)) = {}
    /\ \A j \in 1..(k - 1) :
         IsClone(j) => MatchIdx(info, MemberName(j)) # {}

\* C3: a clone volume with no matching member makes resolution fail with
\* the RPC Not Found condition, naming the volume and the group object, and
\* no descriptor is returned.
C3_NotFoundKind ==
  (ReplaceGotInfo /\ GetGroupMembers(info).exc = "none"
     /\ SomeCloneUnmatched) =>
    /\ ret.exc = "RPCNotFoundError"
    /\ ret.msg = NotFoundMsg(heap[volumes[FirstUnmatched]].name, obj)

\* The metadata is malformed: the count is absent or is no integer, or a
\* key of a member below the count is absent.
CountUnparsable(inf) ==
  /\ "group_member_count" \in DOMAIN inf
  /\ PyInt(inf["group_member_count"]).exc # "none"

KeyAbsent(inf) ==
  \/ "group_member_count" \notin DOMAIN inf
  \/ /\ ~CountUnparsable(inf)
     /\ \E i \in 0..(CountOf(inf) - 1), f \in {"object", "version", "url"} :
          MemberKey(i, f) \notin DOMAIN inf

Malformed(inf) == CountUnparsable(inf) \/ KeyAbsent(inf)

\* C8 as stated: malformed metadata makes the handler fail with a
\* ValueError and nothing else.
C8_ValueErrorOnly ==
  (ReplaceGotInfo /\ Malformed(info)) => ret.exc = "ValueError"

\* C8, amended: malformed metadata makes the handler fail with a built-in
\* error that is not RPC-specific, KeyError when a key is absent and
\* ValueError when the count is no integer; no member list is returned.
C8_BuiltinError ==
  (ReplaceGotInfo /\ Malformed(info)) =>
    /\ KeyAbsent(info) => ret.exc = "KeyError"
    /\ CountUnparsable(info) => ret.exc = "ValueError"
    /\ ret.exc \notin {"none", "RPCNotFoundError",
                        "RPCServiceUnavailableError"}
    /\ "value" \notin DOMAIN ret

C8_Witness ==
  /\ ReplaceGotInfo
  /\ KeyAbsent(info)
  /\ "group_member_count" \in DOMAIN info
  /\ CountOf(info) = 2
  /\ MemberKey(0, "url") \in DOMAIN info
  /\ MemberKey(1, "url") \notin DOMAIN info
  /\ ret.exc = "KeyError"

\* C10: when several members have the object name of a clone volume, the
\* rok/origin annotation of the result is the URL of the one with the
\* lowest index.
C10_FirstMatchWins ==
  [][ReplaceReturned' =>
       \A k \in DOMAIN volumes :
         IsClone(k) =>
           LET m == MatchIdx(info, MemberName(k))
               least == CHOOSE i \in m : \A j \in m : i <= j
           IN /\ m # {}
              /\ heap'[ret'.value[k]].annotations[1].value =
                   info[MemberKey(least, "url")]]_vars

C10_Witness ==
  /\ ReplaceReturned
  /\ \E k \in DOMAIN volumes :
       /\ IsClone(k)
       /\ Cardinality(MatchIdx(info, MemberName(k))) >= 2
       /\ heap[ret.value[k]].annotations[1].value = "rok://0"

(***************************************************************************)
(* Properties of check_rok_availability, under SpecAvail.                  *)
(***************************************************************************)
CheckRan == req.fn = "check_rok_availability"

CheckOrder == <<"_get_client", "account_info", "version_register_suggest">>

\* C4: the sub-checks run in the order client, account_info, listing; the
\* handler stops at the first that fails, so no call follows a failed one;
\* and it returns only if all three calls succeeded and some suggestion
\* has the pod name as its value.
C4_SequentialChecks ==
  CheckRan =>
    /\ Len(log) \in 1..3
    /\ \A k \in DOMAIN log : log[k].call = CheckOrder[k]
    /\ \A k \in 1..(Len(log) - 1) : log[k].ok
    /\ ret.exc = "none" =>
         /\ Len(log) = 3
         /\ \A k \in DOMAIN log : log[k].ok
         /\ \E i \in DOMAIN log[3].result : log[3].result[i].value = PodName

C4_Witness ==
  /\ CheckRan
  /\ ret.exc = "none"
  /\ Len(log[3].result) = 2
  /\ \E r \in raised : r.point = 2

Points(rs) == {r.point : r \in rs}

CeilGi(b) == IF b.lo = 0 THEN b.hi ELSE b.hi + 1

\* C6: the PVC that hydrate_pvc_from_snapshot requests has the storage size
\* ceil(content_length / 2^30) Gi, for every content_length.
C6_CeilingGi ==
  \A k \in DOMAIN log :
    log[k].call = "create_namespaced_persistent_volume_claim" =>
      log[k].arg.storage = StorageOf(CeilGi(info["content_length"]))

(***************************************************************************)
(* Properties of the cached client handle, under SpecClient.               *)
(***************************************************************************)
ReturnedHandles ==
  UNION {{got[t][i].value : i \in {j \in DOMAIN got[t] :
                                      got[t][j].exc = "none"}} :
         t \in DOMAIN got}

\* C7: under any interleaving of calls of _get_client, at most one
\* RokClient is ever constructed, every call that returns yields the same
\* handle, and the cached handle, once set, is never reset or replaced.
C7_CreateOnce ==
  [][/\ handles' <= 1
     /\ Cardinality(ReturnedHandles') <= 1
     /\ _client # None => _client' = _client]_vars

(***************************************************************************)
(* Properties of snapshot_notebook and snapshot_pvc, under SpecSnapshot.   *)
(***************************************************************************)
SnapshotOrder == <<"create_rok_bucket", "version_register">>

\* The calls of a snapshot handler: the bucket step precedes
\* version_register, and version_register is not made after a failed
\* bucket step.
BucketThenRegister(l) ==
  /\ Len(l) <= 2
  /\ \A k \in DOMAIN l : l[k].call = SnapshotOrder[k]
  /\ Len(l) = 2 => l[1].ok

\* C9 as stated: the bucket step precedes version_register, which is not
\* invoked after a failed bucket step, and an invocation that ends in
\* failure leaves no effect in the storage service.
C9_NoPartialEffect ==
  [][(req'.fn \in {"snapshot_notebook", "snapshot_pvc"}) =>
       /\ BucketThenRegister(log')
       /\ ret'.exc # "none" => buckets' = buckets /\ versions' = versions]_vars

\* C9, amended: the bucket step precedes version_register, which is not
\* invoked after a failed bucket step; an invocation that fails before or
\* at the bucket step leaves no effect, and one that fails at
\* version_register registers no version but leaves the bucket it created.
C9_BucketKept ==
  [][(req'.fn \in {"snapshot_notebook", "snapshot_pvc"}) =>
       /\ BucketThenRegister(log')
       /\ ret'.exc # "none" =>
            /\ versions' = versions
            /\ Len(log') < 2 => buckets' = buckets
            /\ Len(log') = 2 => buckets' = buckets \cup {req'.bucket}]_vars

C9_Witness ==
  /\ req.fn = "snapshot_notebook"
  /\ ret.exc # "none"
  /\ Len(log) = 2
  /\ log[1].created
  /\ req.bucket \in buckets
  /\ \A v \in versions : v.bucket # req.bucket

====
